---- MODULE Spec2Model ----
(***************************************************************************)
(* HerokuREPL: the supervisor of one interactive Heroku CLI subprocess.    *)
(* Commands are queued by executeCommand, written one at a time to the     *)
(* subprocess by the async iterator (the pump loop), and resolved by       *)
(* handleOutput when the completion sentinel shows up in the buffer or by  *)
(* the per-command timeout.                                                *)
(*                                                                         *)
(* Strings are sequences of tokens.  The tokens are                        *)
(*   "a"        a piece of command output                                  *)
(*   "w"        white space (what String.prototype.trim removes)           *)
(*   "x"        a piece of stderr text                                     *)
(*   "E1","E2"  the two halves of '<<<END RESULTS>>>'                      *)
(*   "R1","R2"  the two halves of 'heroku >'                               *)
(*   "T"        'The command failed to complete in <n>ms\n'                *)
(*   "C"        'Heroku CLI process closed unexpectedly with code <c>.     *)
(*               Restarting...'                                            *)
(* so that a marker can be cut in two by a chunk boundary.                 *)
(*                                                                         *)
(* Node runs one callback at a time.  Every listener, timer callback and   *)
(* public method is one action; the continuation of an await is a          *)
(* microtask, which runs before the next I/O or timer callback.            *)
(***************************************************************************)
EXTENDS Naturals, Sequences, FiniteSets

\* ------------------------------------------------------------------ bounds
MaxCmds == 2          \* executeCommand calls in a run
MaxEvents == 3        \* what the subprocesses do in a run: writes and exits

\* --------------------------------------------------------------- constants
COMMAND_END_RESULTS_MESSAGE == <<"E1", "E2">>
READY_MESSAGE == <<"R1", "R2">>
TimeoutMessage == <<"T">> \o COMMAND_END_RESULTS_MESSAGE \o <<"w">>
CloseMessage == <<"w", "C">>

\* What a subprocess writes to its stdout in one go.
Outputs ==
  { READY_MESSAGE,
    <<"a">>,
    <<"a", "E1", "E2">>,
    <<"E1", "E2", "a">> }
StderrChunks == { <<"x", "w">> }
ExitCodes == {0, 1}
Iters == {1, 2}
NoTimer == [it |-> 0, cmd |-> 0]

\* The command text of the n-th executeCommand call, as one token.
Commands == <<"c1", "c2", "c3", "c4">>
CommandText(id) == <<Commands[id]>>

\* ----------------------------------------------------------------- strings
\* String.prototype.includes
Includes(s, m) ==
  \E i \in 1..(Len(s) + 1 - Len(m)) : SubSeq(s, i, i + Len(m) - 1) = m

RECURSIVE TrimStart(_)
TrimStart(s) ==
  IF s # <<>> /\ Head(s) = "w" THEN TrimStart(Tail(s)) ELSE s

RECURSIVE TrimEnd(_)
TrimEnd(s) ==
  IF s # <<>> /\ s[Len(s)] = "w" THEN TrimEnd(SubSeq(s, 1, Len(s) - 1)) ELSE s

\* String.prototype.trim
Trim(s) == TrimEnd(TrimStart(s))

\* What the text `seen \o output` tells of the ready marker: the marker if
\* the text contains it, else the longest start of the marker it ends with.
MatchReady(seen, output) ==
  LET text == seen \o output
      n == CHOOSE i \in 0..(Len(READY_MESSAGE) - 1) :
             /\ i <= Len(text)
             /\ SubSeq(text, Len(text) - i + 1, Len(text)) = SubSeq(READY_MESSAGE, 1, i)
             /\ \A j \in (i + 1)..(Len(READY_MESSAGE) - 1) :
                  \/ j > Len(text)
                  \/ SubSeq(text, Len(text) - j + 1, Len(text)) # SubSeq(READY_MESSAGE, 1, j)
  IN IF Includes(text, READY_MESSAGE) THEN READY_MESSAGE
     ELSE SubSeq(READY_MESSAGE, 1, n)

\* ------------------------------------------------------------------- state
VARIABLES
  aborted,              \* abortController.signal.aborted
  isReady,              \* this.isReady
  isProcessingCommand,  \* this.isProcessingCommand
  process,              \* this.process: the n-th handle HerokuREPL.spawn returned
  buffer,               \* this.buffer
  commandQueue,         \* this.commandQueue, as the ids of the queued calls
  pauseResolved,        \* whether the promise in this.pauseIterator is resolved
  commandTimeoutId,     \* this.commandTimeoutId
  timers,               \* the armed command timeouts
  respawnTimers,        \* the armed setTimeout(initializeProcess, 1000)
  procAlive,            \* the subprocess of this.process has not exited
  pipe,                 \* written by the subprocess, not yet a 'data' event
  stalePipes,           \* the same, of killed subprocesses
  pc,                   \* where each async iterator is suspended
  awaited,              \* the command whose promise an iterator yields
  outcome,              \* per executeCommand call: pending, resolved, rejected
  resolvedOrder,        \* the calls in the order their promises resolved
  lastResult,           \* the value the last promise resolved with
  results,              \* per executeCommand call: the value of its promise
  yielded,              \* what the async iterator has given its consumer
  stdin,                \* what was written to stdin: [cmd, proc]
  received,             \* the data events since the last write to stdin
  onlyStdout,           \* nothing but stdout data of this.process since then
  events,               \* writes and exits of the subprocesses so far
  idleCrash,            \* the handle spawned when a subprocess crashed while idle
  readySeen,            \* how much of the ready marker the stdout of this.process ends with
  disposeCalls          \* Symbol.dispose was called: never, once, again

vars ==
  << aborted, isReady, isProcessingCommand, process, buffer, commandQueue,
     pauseResolved, commandTimeoutId, timers, respawnTimers, procAlive, pipe,
     stalePipes, pc, awaited, outcome, resolvedOrder, lastResult, results,
     yielded, stdin, received, onlyStdout, events, idleCrash, readySeen,
     disposeCalls >>

\* The state as one value, so that a handler is the composition of the calls
\* it makes.
Cur ==
  [ aborted |-> aborted, isReady |-> isReady,
    isProcessingCommand |-> isProcessingCommand, process |-> process,
    buffer |-> buffer, commandQueue |-> commandQueue,
    pauseResolved |-> pauseResolved, commandTimeoutId |-> commandTimeoutId,
    timers |-> timers, respawnTimers |-> respawnTimers,
    procAlive |-> procAlive, pipe |-> pipe, stalePipes |-> stalePipes,
    pc |-> pc, awaited |-> awaited, outcome |-> outcome,
    resolvedOrder |-> resolvedOrder, lastResult |-> lastResult,
    results |-> results, yielded |-> yielded,
    stdin |-> stdin, received |-> received, onlyStdout |-> onlyStdout,
    events |-> events, idleCrash |-> idleCrash, readySeen |-> readySeen,
    disposeCalls |-> disposeCalls ]

\* `received` is kept while a command is in flight, and after it for as long
\* as nothing but stdout data of this.process has come in.  `readySeen`
\* starts anew with every subprocess.
Becomes(s) ==
  /\ readySeen' = IF s.process # process THEN <<>> ELSE s.readySeen
  /\ received' = IF s.isProcessingCommand \/ s.onlyStdout
                 THEN s.received ELSE <<>>
  /\ aborted' = s.aborted
  /\ isReady' = s.isReady
  /\ isProcessingCommand' = s.isProcessingCommand
  /\ process' = s.process
  /\ buffer' = s.buffer
  /\ commandQueue' = s.commandQueue
  /\ pauseResolved' = s.pauseResolved
  /\ commandTimeoutId' = s.commandTimeoutId
  /\ timers' = s.timers
  /\ respawnTimers' = s.respawnTimers
  /\ procAlive' = s.procAlive
  /\ pipe' = s.pipe
  /\ stalePipes' = s.stalePipes
  /\ pc' = s.pc
  /\ awaited' = s.awaited
  /\ outcome' = s.outcome
  /\ resolvedOrder' = s.resolvedOrder
  /\ lastResult' = s.lastResult
  /\ results' = s.results
  /\ yielded' = s.yielded
  /\ stdin' = s.stdin
  /\ onlyStdout' = s.onlyStdout
  /\ events' = s.events
  /\ idleCrash' = s.idleCrash
  /\ disposeCalls' = s.disposeCalls

\* ------------------------------------------------------ the idle signal
\* pauseQueue(): a new, unresolved promise replaces this.pauseIterator, and
\* the resolver of the previous one is dropped.  An iterator suspended on
\* the previous promise, if that one was unresolved, stays suspended on it.
PauseQueue(s) ==
  [s EXCEPT !.pauseResolved = FALSE,
            !.pc = [i \in Iters |->
                      IF s.pc[i] = "awaitPause" THEN "awaitStale" ELSE s.pc[i]]]

\* this.pauseIteratorResolver?.(): resolves the promise in this.pauseIterator.
ResolvePause(s) ==
  [s EXCEPT !.pauseResolved = TRUE,
            !.pc = [i \in Iters |->
                      IF s.pc[i] = "awaitPause" THEN "runnable" ELSE s.pc[i]]]

\* The top of the while loop: leave when aborted, else await this.pauseIterator.
LoopTop(s, i) ==
  [s EXCEPT !.pc[i] = IF s.aborted THEN "done"
                      ELSE IF s.pauseResolved THEN "runnable"
                      ELSE "awaitPause"]

\* A continuation is queued: it runs before any I/O or timer callback.  The
\* consumer is a for-await loop with a synchronous body, which calls next()
\* in the continuation of the value it was given.
MicrotaskPending ==
  \E i \in Iters :
    \/ pc[i] = "runnable"
    \/ pc[i] = "awaitCmd" /\ outcome[awaited[i]] = "resolved"
    \/ pc[i] = "yielded"

\* ----------------------------------------------------------- handleOutput
\* handleOutput with commandQueue.pop() for commandQueue.shift().
HandleOutput_PopsLast(s, output) ==
  LET b == s.buffer \o output IN
  IF Includes(b, COMMAND_END_RESULTS_MESSAGE) /\ s.isProcessingCommand
  THEN
    LET result == Trim(b)
        s1 == [s EXCEPT !.buffer = <<>>,
                        !.isProcessingCommand = FALSE,
                        !.timers = s.timers \ {s.commandTimeoutId}]
        n == Len(s1.commandQueue)
        s2 == IF s1.commandQueue = <<>> THEN s1
              ELSE [s1 EXCEPT !.commandQueue = SubSeq(s1.commandQueue, 1, n - 1),
                              !.outcome[s1.commandQueue[n]] = "resolved",
                              !.resolvedOrder =
                                 Append(s1.resolvedOrder, s1.commandQueue[n]),
                              !.lastResult = result,
                              !.results[s1.commandQueue[n]] = result]
    IN IF s2.commandQueue = <<>> THEN PauseQueue(s2) ELSE s2
  ELSE [s EXCEPT !.buffer = b]

\* handleOutput without clearTimeout(this.commandTimeoutId).
HandleOutput_NoClearTimeout(s, output) ==
  LET b == s.buffer \o output IN
  IF Includes(b, COMMAND_END_RESULTS_MESSAGE) /\ s.isProcessingCommand
  THEN
    LET result == Trim(b)
        s1 == [s EXCEPT !.buffer = <<>>,
                        !.isProcessingCommand = FALSE]
        s2 == IF s1.commandQueue = <<>> THEN s1
              ELSE [s1 EXCEPT !.commandQueue = Tail(s1.commandQueue),
                              !.outcome[Head(s1.commandQueue)] = "resolved",
                              !.resolvedOrder =
                                 Append(s1.resolvedOrder, Head(s1.commandQueue)),
                              !.lastResult = result,
                              !.results[Head(s1.commandQueue)] = result]
    IN IF s2.commandQueue = <<>> THEN PauseQueue(s2) ELSE s2
  ELSE [s EXCEPT !.buffer = b]

\* handleOutput resolving the head without commandQueue.shift().
HandleOutput_KeepsHead(s, output) ==
  LET b == s.buffer \o output IN
  IF Includes(b, COMMAND_END_RESULTS_MESSAGE) /\ s.isProcessingCommand
  THEN
    LET result == Trim(b)
        s1 == [s EXCEPT !.buffer = <<>>,
                        !.isProcessingCommand = FALSE,
                        !.timers = s.timers \ {s.commandTimeoutId}]
        s2 == IF s1.commandQueue = <<>> THEN s1
              ELSE [s1 EXCEPT !.outcome[Head(s1.commandQueue)] = "resolved",
                              !.resolvedOrder =
                                 Append(s1.resolvedOrder, Head(s1.commandQueue)),
                              !.lastResult = result,
                              !.results[Head(s1.commandQueue)] = result]
    IN IF s2.commandQueue = <<>> THEN PauseQueue(s2) ELSE s2
  ELSE [s EXCEPT !.buffer = b]

HandleOutput(s, output) ==
  LET b == s.buffer \o output IN
  IF Includes(b, COMMAND_END_RESULTS_MESSAGE) /\ s.isProcessingCommand
  THEN
    LET result == Trim(b)
        s1 == [s EXCEPT !.buffer = <<>>,
                        !.isProcessingCommand = FALSE,
                        !.timers = s.timers \ {s.commandTimeoutId}]
        s2 == IF s1.commandQueue = <<>> THEN s1
              ELSE [s1 EXCEPT !.commandQueue = Tail(s1.commandQueue),
                              !.outcome[Head(s1.commandQueue)] = "resolved",
                              !.resolvedOrder =
                                 Append(s1.resolvedOrder, Head(s1.commandQueue)),
                              !.lastResult = result,
                              !.results[Head(s1.commandQueue)] = result]
    IN IF s2.commandQueue = <<>> THEN PauseQueue(s2) ELSE s2
  ELSE [s EXCEPT !.buffer = b]

\* ------------------------------------------------------ initializeProcess
\* initializeProcess without the return when the signal is aborted.
InitializeProcess_NoAbortCheck(s) ==
  [s EXCEPT !.isReady = FALSE,
            !.process = s.process + 1,
            !.procAlive = TRUE,
            !.pipe = <<>>,
            !.stalePipes = IF s.pipe = <<>> THEN s.stalePipes
                           ELSE Append(s.stalePipes, s.pipe)]

\* The listeners of the ChildProcess are removed and it is killed; what it
\* had written to its stdout is still delivered to the 'data' listener,
\* which removeAllListeners() on the ChildProcess does not detach.
InitializeProcess(s) ==
  LET s1 == [s EXCEPT !.isReady = FALSE] IN
  IF s1.aborted THEN s1
  ELSE [s1 EXCEPT !.process = s1.process + 1,
                  !.procAlive = TRUE,
                  !.pipe = <<>>,
                  !.stalePipes = IF s1.pipe = <<>> THEN s1.stalePipes
                                 ELSE Append(s1.stalePipes, s1.pipe)]

\* The 'data' listener of stdout.
OnStdoutData(s, output) ==
  LET s1 == IF Includes(output, READY_MESSAGE)
            THEN ResolvePause([s EXCEPT !.isReady = TRUE])
            ELSE s
  IN HandleOutput(s1, output)

\* The 'data' listener of stderr.
OnStderrData(s, output) ==
  [s EXCEPT !.buffer = s.buffer \o Trim(output)]

\* The 'close' listener without the setTimeout of a clean exit.
OnClose_NoDelayedRespawn(s, code) ==
  IF s.aborted THEN s
  ELSE
    LET s1 == PauseQueue(s) IN
    IF code # 0
    THEN InitializeProcess([s1 EXCEPT !.buffer = s1.buffer \o CloseMessage])
    ELSE s1

\* The 'close' listener.
OnClose(s, code) ==
  IF s.aborted THEN s
  ELSE
    LET s1 == PauseQueue(s) IN
    IF code # 0
    THEN InitializeProcess([s1 EXCEPT !.buffer = s1.buffer \o CloseMessage])
    ELSE [s1 EXCEPT !.respawnTimers = s1.respawnTimers + 1]

\* The callback without its call of initializeProcess.
OnCommandTimeout_NoRespawn(s) ==
  HandleOutput(s, TimeoutMessage)

\* The callback without its call of handleOutput.
OnCommandTimeout_NoOutput(s) ==
  InitializeProcess(s)

\* The callback of the command timeout.
OnCommandTimeout(s) ==
  HandleOutput(InitializeProcess(s), TimeoutMessage)

\* The 'abort' listener without `this.commandQueue.length = 0`.
OnAbort_KeepsQueue(s) ==
  LET s1 == ResolvePause(s) IN
  [s1 EXCEPT !.timers = s1.timers \ {s1.commandTimeoutId}]

\* The 'abort' listener.
OnAbort(s) ==
  LET s1 == ResolvePause([s EXCEPT !.commandQueue = <<>>]) IN
  [s1 EXCEPT !.timers = s1.timers \ {s1.commandTimeoutId}]

\* -------------------------------------------------------------------- Init
\* The state after the constructor: pauseQueue(), initializeProcess().
Init ==
  /\ aborted = FALSE
  /\ isReady = FALSE
  /\ isProcessingCommand = FALSE
  /\ process = 1
  /\ buffer = <<>>
  /\ commandQueue = <<>>
  /\ pauseResolved = FALSE
  /\ commandTimeoutId = NoTimer
  /\ timers = {}
  /\ respawnTimers = 0
  /\ procAlive = TRUE
  /\ pipe = <<>>
  /\ stalePipes = <<>>
  /\ pc = [i \in Iters |-> "created"]
  /\ awaited = [i \in Iters |-> 0]
  /\ outcome = <<>>
  /\ resolvedOrder = <<>>
  /\ lastResult = <<>>
  /\ results = <<>>
  /\ yielded = <<>>
  /\ stdin = <<>>
  /\ received = <<>>
  /\ onlyStdout = FALSE
  /\ events = 0
  /\ idleCrash = 0
  /\ readySeen = <<>>
  /\ disposeCalls = "never"

\* ------------------------------------------------------------ the caller
\* executeCommand with commandQueue.unshift for commandQueue.push.
ExecuteCommand_Unshift ==
  /\ Len(outcome) < MaxCmds
  /\ LET id == Len(outcome) + 1
         s == Cur
     IN IF s.aborted
        THEN Becomes([s EXCEPT !.outcome = Append(s.outcome, "rejected"),
                               !.results = Append(s.results, <<>>)])
        ELSE Becomes(ResolvePause(
               [s EXCEPT !.outcome = Append(s.outcome, "pending"),
                         !.results = Append(s.results, <<>>),
                         !.commandQueue = <<id>> \o s.commandQueue]))

\* executeCommand without the throw when the signal is aborted.
ExecuteCommand_NoAbortCheck ==
  /\ Len(outcome) < MaxCmds
  /\ LET id == Len(outcome) + 1
         s == Cur
     IN Becomes(ResolvePause(
          [s EXCEPT !.outcome = Append(s.outcome, "pending"),
                    !.results = Append(s.results, <<>>),
                    !.commandQueue = Append(s.commandQueue, id)]))

\* executeCommand(command): the call is the next id.
ExecuteCommand ==
  /\ Len(outcome) < MaxCmds
  /\ LET id == Len(outcome) + 1
         s == Cur
     IN IF s.aborted
        THEN Becomes([s EXCEPT !.outcome = Append(s.outcome, "rejected"),
                               !.results = Append(s.results, <<>>)])
        ELSE Becomes(ResolvePause(
               [s EXCEPT !.outcome = Append(s.outcome, "pending"),
                         !.results = Append(s.results, <<>>),
                         !.commandQueue = Append(s.commandQueue, id)]))

\* [Symbol.dispose]() calling onAbort itself, on every call.
Dispose_RunsOnAbort ==
  /\ LET s == [Cur EXCEPT !.disposeCalls = IF disposeCalls = "never" THEN "once"
                                           ELSE "again",
                          !.onlyStdout = FALSE]
     IN Becomes(OnAbort([s EXCEPT !.aborted = TRUE]))

\* [Symbol.dispose](): abortController.abort() dispatches 'abort' once.
Dispose ==
  /\ LET s == [Cur EXCEPT !.disposeCalls = IF disposeCalls = "never" THEN "once"
                                           ELSE "again",
                          !.onlyStdout = FALSE]
     IN IF s.aborted THEN Becomes(s)
        ELSE Becomes(OnAbort([s EXCEPT !.aborted = TRUE]))

\* ------------------------------------------------------ the async iterator
\* The consumer calls next(): the generator starts, or goes on after its
\* yield, at the top of the loop.
ConsumerNext(i) ==
  /\ pc[i] \in {"created", "yielded"}
  /\ Becomes(LoopTop(Cur, i))

\* The same with `yield nextCommand.command`: the generator does not wait
\* for the promise of the command it has written.
PumpResume_YieldsText(i) ==
  /\ pc[i] = "runnable"
  /\ LET s == Cur IN
     IF s.commandQueue = <<>> \/ ~s.isReady
     THEN Becomes(LoopTop(PauseQueue(s), i))
     ELSE
       LET nextCommand == Head(s.commandQueue)
           t == [it |-> i, cmd |-> nextCommand]
       IN Becomes([s EXCEPT
            !.buffer = <<>>,
            !.isProcessingCommand = TRUE,
            !.stdin = Append(s.stdin, [cmd |-> nextCommand, proc |-> s.process]),
            !.timers = s.timers \cup {t},
            !.commandTimeoutId = t,
            !.pc[i] = "yielded",
            !.yielded = Append(s.yielded, [cmd |-> nextCommand,
                                           value |-> CommandText(nextCommand)]),
            !.awaited[i] = nextCommand,
            !.received = <<>>,
            !.onlyStdout = TRUE])

\* The same taking the last command of the queue, not the first.
PumpResume_WritesLast(i) ==
  /\ pc[i] = "runnable"
  /\ LET s == Cur IN
     IF s.commandQueue = <<>> \/ ~s.isReady
     THEN Becomes(LoopTop(PauseQueue(s), i))
     ELSE
       LET nextCommand == s.commandQueue[Len(s.commandQueue)]
           t == [it |-> i, cmd |-> nextCommand]
       IN Becomes([s EXCEPT
            !.buffer = <<>>,
            !.isProcessingCommand = TRUE,
            !.stdin = Append(s.stdin, [cmd |-> nextCommand, proc |-> s.process]),
            !.timers = s.timers \cup {t},
            !.commandTimeoutId = t,
            !.pc[i] = "awaitCmd",
            !.awaited[i] = nextCommand,
            !.received = <<>>,
            !.onlyStdout = TRUE])

\* The same without `this.buffer = ''`.
PumpResume_KeepsBuffer(i) ==
  /\ pc[i] = "runnable"
  /\ LET s == Cur IN
     IF s.commandQueue = <<>> \/ ~s.isReady
     THEN Becomes(LoopTop(PauseQueue(s), i))
     ELSE
       LET nextCommand == Head(s.commandQueue)
           t == [it |-> i, cmd |-> nextCommand]
       IN Becomes([s EXCEPT
            !.isProcessingCommand = TRUE,
            !.stdin = Append(s.stdin, [cmd |-> nextCommand, proc |-> s.process]),
            !.timers = s.timers \cup {t},
            !.commandTimeoutId = t,
            !.pc[i] = "awaitCmd",
            !.awaited[i] = nextCommand,
            !.received = <<>>,
            !.onlyStdout = TRUE])

\* The continuation of `await this.pauseIterator`, down to the yield.
PumpResume(i) ==
  /\ pc[i] = "runnable"
  /\ LET s == Cur IN
     IF s.commandQueue = <<>> \/ ~s.isReady
     THEN Becomes(LoopTop(PauseQueue(s), i))
     ELSE
       LET nextCommand == Head(s.commandQueue)
           t == [it |-> i, cmd |-> nextCommand]
       IN Becomes([s EXCEPT
            !.buffer = <<>>,
            !.isProcessingCommand = TRUE,
            !.stdin = Append(s.stdin, [cmd |-> nextCommand, proc |-> s.process]),
            !.timers = s.timers \cup {t},
            !.commandTimeoutId = t,
            !.pc[i] = "awaitCmd",
            !.awaited[i] = nextCommand,
            !.received = <<>>,
            !.onlyStdout = TRUE])

\* The same with the command text for the value of the promise.
YieldDeliver_YieldsCommand(i) ==
  /\ pc[i] = "awaitCmd"
  /\ outcome[awaited[i]] = "resolved"
  /\ Becomes([Cur EXCEPT !.pc[i] = "yielded",
                          !.yielded = Append(yielded,
                                             [cmd |-> awaited[i],
                                              value |-> CommandText(awaited[i])])])

\* The promise of `yield nextCommand.promise` has resolved: the value goes
\* to the consumer and the generator waits for the next next().
YieldDeliver(i) ==
  /\ pc[i] = "awaitCmd"
  /\ outcome[awaited[i]] = "resolved"
  /\ Becomes([Cur EXCEPT !.pc[i] = "yielded",
                          !.yielded = Append(yielded,
                                             [cmd |-> awaited[i],
                                              value |-> results[awaited[i]]])])

\* ---------------------------------------------------------- the subprocess
\* The subprocess writes to its stdout.
ProcWrite(o) ==
  /\ procAlive
  /\ ~aborted
  /\ pipe = <<>>
  /\ events < MaxEvents
  /\ Becomes([Cur EXCEPT !.pipe = o, !.events = events + 1])

\* A 'data' event of the stdout of this.process: the first k tokens.
StdoutData(k) ==
  /\ ~MicrotaskPending
  /\ k \in 1..Len(pipe)
  /\ LET output == SubSeq(pipe, 1, k)
         s == [Cur EXCEPT !.pipe = SubSeq(pipe, k + 1, Len(pipe)),
                          !.received = received \o output,
                          !.readySeen = MatchReady(readySeen, output)]
     IN Becomes(OnStdoutData(s, output))

\* A 'data' event of the stdout of a subprocess that was replaced.
StaleStdoutData(k) ==
  /\ ~MicrotaskPending
  /\ stalePipes # <<>>
  /\ k \in 1..Len(Head(stalePipes))
  /\ LET old == Head(stalePipes)
         output == SubSeq(old, 1, k)
         rest == SubSeq(old, k + 1, Len(old))
         s == [Cur EXCEPT !.stalePipes = IF rest = <<>> THEN Tail(stalePipes)
                                         ELSE <<rest>> \o Tail(stalePipes),
                          !.received = received \o output,
                          !.onlyStdout = FALSE]
     IN Becomes(OnStdoutData(s, output))

\* A 'data' event of the stderr of this.process.
StderrData(output) ==
  /\ ~MicrotaskPending
  /\ procAlive
  /\ ~aborted
  /\ events < MaxEvents
  /\ LET s == [Cur EXCEPT !.received = received \o output,
                          !.onlyStdout = FALSE,
                          !.events = events + 1]
     IN Becomes(OnStderrData(s, output))

\* The subprocess exits; 'close' comes after its streams have ended.
Close(code) ==
  /\ ~MicrotaskPending
  /\ procAlive
  /\ pipe = <<>>
  /\ events < MaxEvents
  /\ LET s == [Cur EXCEPT !.procAlive = FALSE,
                          !.events = events + 1,
                          !.onlyStdout = FALSE,
                          !.idleCrash =
                             IF code # 0 /\ ~aborted /\ ~isProcessingCommand
                             THEN process + 1 ELSE idleCrash]
     IN Becomes(OnClose(s, code))

\* ----------------------------------------------------------------- timers
\* An armed command timeout fires.
CommandTimeout(t) ==
  /\ ~MicrotaskPending
  /\ t \in timers
  /\ LET s == [Cur EXCEPT !.timers = timers \ {t},
                          !.onlyStdout = FALSE]
     IN Becomes(OnCommandTimeout(s))

\* The timer of a clean exit fires, a second after it.
DelayedRespawn ==
  /\ ~MicrotaskPending
  /\ respawnTimers > 0
  /\ LET s == [Cur EXCEPT !.respawnTimers = respawnTimers - 1,
                          !.onlyStdout = FALSE]
     IN Becomes(InitializeProcess(s))

\* ------------------------------------------------------------------- Spec
\* One consumer, as index.ts has: `for await (const command of herokuRepl)`.
Next ==
  \/ ExecuteCommand
  \/ Dispose
  \/ ConsumerNext(1)
  \/ PumpResume(1)
  \/ YieldDeliver(1)
  \/ \E o \in Outputs : ProcWrite(o)
  \/ \E k \in 1..Len(pipe) : StdoutData(k)
  \/ \E k \in 1..Len((stalePipes \o << <<>> >>)[1]) : StaleStdoutData(k)
  \/ \E o \in StderrChunks : StderrData(o)
  \/ \E code \in ExitCodes : Close(code)
  \/ \E t \in timers : CommandTimeout(t)
  \/ DelayedRespawn

Spec == Init /\ [][Next]_vars

\* The continuations of the generator and of the for-await loop are
\* microtasks: once queued they run.
Fairness ==
  /\ WF_vars(ConsumerNext(1))
  /\ WF_vars(PumpResume(1))
  /\ WF_vars(YieldDeliver(1))

FairSpec == Init /\ [][Next]_vars /\ Fairness

\* The same without a promise of the consumer: it calls next() when it
\* likes, or never.  The continuations of the generator still run.
PassiveFairness ==
  /\ WF_vars(PumpResume(1))
  /\ WF_vars(YieldDeliver(1))

PassiveSpec == Init /\ [][Next]_vars /\ PassiveFairness

\* Timers: an armed command timeout that is not cleared fires, once the
\* continuations that are queued have run.  This is
\* WF_vars(\E t \in timers : CommandTimeout(t)) with the enabling condition
\* of the action written out.
TimerEnabled ==
  /\ ~MicrotaskPending
  /\ timers # {}

TimerFairness ==
  \/ []<>(~TimerEnabled)
  \/ []<><<\E t \in timers : CommandTimeout(t)>>_vars

TimedSpec == Init /\ [][Next]_vars /\ TimerFairness

\* The timer of a clean exit fires, and the continuations run.
RespawnSpec == Init /\ [][Next]_vars /\ Fairness /\ WF_vars(DelayedRespawn)

\* Continuations run and timers fire.
LiveSpec == Init /\ [][Next]_vars /\ Fairness /\ TimerFairness

\* Two consumers iterate the session at once, as the test suite has.
Next2 ==
  \/ Next
  \/ ConsumerNext(2)
  \/ PumpResume(2)
  \/ YieldDeliver(2)

Spec2 == Init /\ [][Next2]_vars

\* ================================================================== claims

\* C1: the promises resolve in submission order: a call never resolves
\* after a call that was made later.  Calls are numbered as they are made.
C1_FifoResolution ==
  \A i, j \in 1..Len(resolvedOrder) :
    i < j => resolvedOrder[i] < resolvedOrder[j]

\* Two commands have resolved, the second one by its timeout.
C1_Witness ==
  /\ resolvedOrder = <<1, 2>>
  /\ Includes(lastResult, <<"T">>)

\* C2: at most one command is in flight.  Every write to stdin but the last
\* one is of a command whose promise has resolved, so that a command is
\* written only when nothing that was written before it is still pending.
InFlight ==
  { stdin[k].cmd : k \in { n \in 1..Len(stdin) : outcome[stdin[n].cmd] = "pending" } }

C2_OneInFlight ==
  /\ Cardinality(InFlight) <= 1
  /\ \A k \in 1..(Len(stdin) - 1) : outcome[stdin[k].cmd] = "resolved"

\* 'status' is written after 'list' resolved, with 'status' queued before.
C2_Witness ==
  /\ Len(stdin) = 2
  /\ stdin[1].cmd = 1
  /\ stdin[2].cmd = 2
  /\ outcome = <<"resolved", "pending">>

\* C3: crash recovery.  A non-zero exit while no command is in flight and
\* the session is not disposed spawns exactly one subprocess, and once that
\* subprocess is ready a queued command is eventually written to it (unless
\* the session is disposed or that subprocess exits or is replaced first).
C3_Recovered ==
  /\ idleCrash = process
  /\ procAlive
  /\ ~aborted
  /\ isReady
  /\ commandQueue # <<>>

C3_CrashRecovery ==
  /\ [][idleCrash' # idleCrash => process' = process + 1]_vars
  /\ C3_Recovered ~>
       (isProcessingCommand \/ aborted \/ ~procAlive \/ process # idleCrash)

\* C4: when the timeout of a command fires, the promise of that command is
\* resolved (there is no path that rejects it) with what was received since
\* the command was written, followed by the timeout message and the
\* sentinel, and a subprocess is spawned.  White space is subject to trim()
\* and the close message is the session's own text.
IsText(c) == c \notin {"w", "C"}

Text(s) == SelectSeq(s, IsText)

C4_TimeoutResolves ==
  [][\A t \in timers :
       CommandTimeout(t) =>
         /\ outcome[t.cmd] = "pending"
         /\ outcome'[t.cmd] = "resolved"
         /\ resolvedOrder' = Append(resolvedOrder, t.cmd)
         /\ \E n \in 0..Len(lastResult') :
              /\ lastResult' = SubSeq(lastResult', 1, n) \o <<"T", "E1", "E2">>
              /\ Text(SubSeq(lastResult', 1, n)) = Text(received)
         /\ process' = process + 1]_vars

\* A command has resolved by its timeout after output and stderr text.
C4_Witness ==
  /\ resolvedOrder # <<>>
  /\ lastResult = <<"a", "x", "T", "E1", "E2">>
  /\ process = 2

\* C5: timeout recovery.  After a command has timed out, the next command,
\* once written to the ready replacement subprocess, is answered by that
\* subprocess: while it is in flight the session keeps the subprocess it was
\* written to, unless that subprocess exits or the command times out itself.
C5_NextInFlight ==
  /\ ~aborted
  /\ isProcessingCommand
  /\ isReady
  /\ procAlive
  /\ resolvedOrder # <<>>
  /\ Includes(lastResult, <<"T">>)
  /\ stdin # <<>>
  /\ stdin[Len(stdin)].proc = process

C5_TimeoutRecovery ==
  [][(C5_NextInFlight /\ process' # process) =>
       \/ events' # events
       \/ outcome'[stdin[Len(stdin)].cmd] = "resolved"]_vars

\* C6: once the session is disposed no subprocess is spawned, whatever
\* happens: a 'close' event, the delayed respawn of a clean exit, a timer.
C6_NoSpawnAfterDispose ==
  [][aborted => process' = process]_vars

\* The first subprocess has exited and the delayed respawn, if one was
\* armed, has run, and the disposed session still has its first handle.
C6_Witness ==
  /\ aborted
  /\ ~procAlive
  /\ respawnTimers = 0
  /\ process = 1

\* C7: disposal is terminal, and a call of executeCommand after it is
\* rejected: it adds nothing to the queue, writes nothing to stdin and arms
\* no timer.
C7_RejectedAfterDispose ==
  [][aborted =>
       /\ aborted'
       /\ commandQueue' = commandQueue
       /\ stdin' = stdin
       /\ timers' = timers
       /\ Len(outcome') > Len(outcome) =>
            /\ outcome' = Append(outcome, "rejected")
            /\ UNCHANGED << isReady, isProcessingCommand, process, buffer,
                            pauseResolved, commandTimeoutId, respawnTimers, pc >>]_vars

\* A call was rejected while a command accepted before the disposal is
\* still pending.
C7_Witness ==
  /\ aborted
  /\ outcome = <<"pending", "rejected">>

\* C8: a second call of Symbol.dispose changes nothing of the session.
C8_DisposeIdempotent ==
  [][(disposeCalls = "once" /\ disposeCalls' = "again") =>
       UNCHANGED << aborted, isReady, isProcessingCommand, process, buffer,
                    commandQueue, pauseResolved, commandTimeoutId, timers,
                    respawnTimers, procAlive, pipe, stalePipes, pc, awaited,
                    outcome, resolvedOrder, lastResult, stdin >>]_vars

\* Disposed twice, after the generator has paused the queue again and left.
C8_Witness ==
  /\ disposeCalls = "again"
  /\ pc[1] = "done"
  /\ ~pauseResolved

\* C9: chunk-boundary independence.  Once the command written last has
\* resolved, with nothing but stdout data of the subprocess received since
\* it was written, its result is the result of the same data delivered as
\* one chunk.
SingleChunkResult(output) ==
  OnStdoutData([Cur EXCEPT !.buffer = <<>>,
                           !.isProcessingCommand = TRUE,
                           !.commandQueue = <<stdin[Len(stdin)].cmd>>,
                           !.lastResult = <<>>],
               output).lastResult

C9_ChunkIndependence ==
  ( /\ onlyStdout
    /\ stdin # <<>>
    /\ outcome[stdin[Len(stdin)].cmd] = "resolved"
    /\ resolvedOrder[Len(resolvedOrder)] = stdin[Len(stdin)].cmd )
  => lastResult = SingleChunkResult(received)

\* C10: a result ends with the sentinel: it is the trimmed buffer up to and
\* including the first sentinel in it.
UpToSentinel(s) ==
  LET n == CHOOSE i \in 1..Len(s) :
             /\ Includes(SubSeq(s, 1, i), COMMAND_END_RESULTS_MESSAGE)
             /\ \A j \in 1..(i - 1) :
                  ~Includes(SubSeq(s, 1, j), COMMAND_END_RESULTS_MESSAGE)
  IN SubSeq(s, 1, n)

C10_ResultEndsAtSentinel ==
  resolvedOrder # <<>> => lastResult = UpToSentinel(lastResult)

\* C11: a stderr chunk that comes in while a command is in flight is
\* appended to the buffer, settles nothing by itself, and is contained in
\* the result the command resolves with.
C11_StderrCaptured ==
  [][/\ \A o \in StderrChunks :
          (StderrData(o) /\ isProcessingCommand) =>
            /\ buffer' = buffer \o o
            /\ outcome' = outcome
            /\ resolvedOrder' = resolvedOrder
     /\ \A c \in 1..Len(outcome) :
          (outcome[c] = "pending" /\ outcome'[c] = "resolved") =>
            \A o \in StderrChunks :
              Includes(received, o) => Includes(lastResult', o)]_vars

C13_YieldsCommandStarted ==
  [][yielded' # yielded =>
       /\ yielded' = Append(yielded, [cmd |-> stdin'[Len(stdin')].cmd,
                                      value |-> CommandText(stdin'[Len(stdin')].cmd)])
       /\ stdin' # stdin]_vars

\* C14: the consumer of the iterator is a passive observer.  Whether or not
\* it asks for the next value, a queued command does not stay unwritten for
\* ever in a session that is ready, not disposed, with its subprocess alive
\* and no command in flight.
C14_Stalled ==
  /\ ~aborted
  /\ procAlive
  /\ isReady
  /\ ~isProcessingCommand
  /\ commandQueue # <<>>

C14_PassiveConsumer ==
  C14_Stalled ~> ~C14_Stalled

\* C15: disposal empties the queue and settles nothing: a promise that is
\* pending when the session is disposed stays pending for ever, whatever
\* arrives afterwards.
C15_DisposeSettlesNothing ==
  [][/\ (~aborted /\ aborted') => (commandQueue' = <<>> /\ outcome' = outcome)
     /\ aborted => \A c \in 1..Len(outcome) :
                     outcome[c] = "pending" => outcome'[c] = "pending"]_vars

\* The sentinel of the command in flight has arrived after the disposal,
\* and a queued command was discarded: both are pending.
C15_Witness ==
  /\ aborted
  /\ stdin # <<>>
  /\ ~isProcessingCommand
  /\ outcome = <<"pending", "pending">>

\* C16: while the session is not disposed, a command that was written to
\* stdin does not stay in flight for ever: its promise is resolved, by the
\* sentinel or by its timeout, also when the subprocess exits meanwhile.
C16_WrittenResolves ==
  \A c \in 1..MaxCmds :
    (c \in InFlight /\ ~aborted) ~> (c \notin InFlight \/ aborted)

\* A command was resolved by its timeout after the subprocess it was
\* written to had exited with code 1.
C16_Witness ==
  /\ ~aborted
  /\ resolvedOrder # <<>>
  /\ Includes(lastResult, <<"C", "T">>)

\* C17: the queue changes only by an append at its tail (executeCommand),
\* by the removal of its head, which is the command in flight and is
\* resolved in that step (sentinel or timeout), or by its truncation to
\* empty (dispose).  Whatever else happens, a timeout or the exit of the
\* subprocess included, the queue is as it was.
C17_QueueDiscipline ==
  [][\/ commandQueue' = commandQueue
     \/ /\ Len(outcome') = Len(outcome) + 1
        /\ commandQueue' = Append(commandQueue, Len(outcome'))
     \/ /\ commandQueue # <<>>
        /\ commandQueue' = Tail(commandQueue)
        /\ stdin # <<>>
        /\ stdin[Len(stdin)].cmd = Head(commandQueue)
        /\ outcome[Head(commandQueue)] = "pending"
        /\ outcome'[Head(commandQueue)] = "resolved"
     \/ /\ ~aborted
        /\ aborted'
        /\ commandQueue' = <<>>]_vars

\* A timeout has removed the head and the command queued behind it is
\* still there.
C17_Witness ==
  /\ commandQueue = <<2>>
  /\ resolvedOrder = <<1>>
  /\ Includes(lastResult, <<"T">>)

\* C18: a command is written to stdin at most once, also when it timed
\* out or the subprocess exited while it was in flight or queued.
C18_WrittenOnce ==
  \A j, k \in 1..Len(stdin) : stdin[j].cmd = stdin[k].cmd => j = k

\* The first command timed out after its subprocess had crashed; the second
\* one, queued meanwhile, was written to another subprocess.
C18_Witness ==
  /\ Len(stdin) = 2
  /\ Includes(results[stdin[1].cmd], <<"C", "T">>)
  /\ stdin[2].proc # stdin[1].proc

\* C19: the exit of the subprocess, with whatever code, makes the session
\* not ready at once, unless it is disposed, and no command is written to
\* a subprocess that has exited.
C19_NotReadyAfterExit ==
  [][/\ ((\E code \in ExitCodes : Close(code)) /\ ~aborted) => ~isReady'
     /\ stdin' # stdin => procAlive]_vars

\* C20: a command is written only when isReady is true; every spawn resets
\* isReady to false, and it becomes true only in a 'data' event of the
\* stdout of the current subprocess that carries the ready marker.
C20_ReadyGate ==
  [][/\ stdin' # stdin => isReady
     /\ process' # process => ~isReady'
     /\ (~isReady /\ isReady') =>
          \E k \in 1..Len(pipe) :
            StdoutData(k) /\ Includes(SubSeq(pipe, 1, k), READY_MESSAGE)]_vars

\* C21: no lost wake-up: the pump loop is never suspended on a promise that
\* pauseQueue() has replaced, which no resolver can reach any more.
C21_NoStaleWait ==
  \A i \in Iters : pc[i] # "awaitStale"

\* C22: executeCommand signals the pump loop.  With a consumer iterating, a
\* queued command does not stay unwritten for ever while the session is not
\* disposed and its subprocess is alive and ready, wherever the pump loop
\* was suspended when the command was submitted.
Written(c) == \E k \in 1..Len(stdin) : stdin[k].cmd = c

C22_Waiting(c) ==
  /\ c \in 1..Len(outcome)
  /\ outcome[c] = "pending"
  /\ ~Written(c)
  /\ ~aborted
  /\ procAlive
  /\ isReady
  /\ pc[1] # "created"

C22_SubmittedIsWritten ==
  \A c \in 1..MaxCmds :
    C22_Waiting(c) ~> (Written(c) \/ aborted \/ ~procAlive \/ ~isReady)

\* C23: with two iterators active, a command is written to stdin once, one
\* timer at most is armed for it, and no timer is left armed for a command
\* that has completed.
C23_TwoIterators ==
  /\ \A j, k \in 1..Len(stdin) : stdin[j].cmd = stdin[k].cmd => j = k
  /\ \A t, u \in timers : t.cmd = u.cmd => t = u
  /\ \A t \in timers : outcome[t.cmd] = "pending"

\* C24: the timeout callback runs only for the command that is in flight,
\* in a session that is not disposed: a command that has resolved and a
\* disposed session have no timer armed, so that the callback never spawns
\* or makes a result for them.
C24_TimerOnlyInFlight ==
  /\ \A t \in timers :
       /\ ~aborted
       /\ isProcessingCommand
       /\ outcome[t.cmd] = "pending"
       /\ stdin # <<>>
       /\ stdin[Len(stdin)].cmd = t.cmd
       /\ t = commandTimeoutId
  /\ Cardinality(timers) <= 1

\* The sentinel has completed the command in flight and cleared its timer.
C24_Witness ==
  /\ timers = {}
  /\ resolvedOrder # <<>>
  /\ ~Includes(lastResult, <<"T">>)
  /\ commandTimeoutId # NoTimer
  /\ ~aborted

\* C25: when the subprocess of a session that is not disposed exits, a
\* non-zero code spawns the replacement in the 'close' listener; code 0
\* spawns nothing there and arms one timer, whose callback spawns one
\* subprocess (none if the session was disposed meanwhile).  Either way the
\* session does not stay without a subprocess, unless it is disposed.
C25_RespawnOnExit ==
  /\ [][/\ \A code \in ExitCodes :
             (Close(code) /\ ~aborted) =>
               IF code # 0
               THEN process' = process + 1 /\ respawnTimers' = respawnTimers
               ELSE process' = process /\ respawnTimers' = respawnTimers + 1
        /\ DelayedRespawn =>
             /\ respawnTimers' = respawnTimers - 1
             /\ process' = IF aborted THEN process ELSE process + 1]_vars
  /\ (~procAlive /\ ~aborted) ~> (procAlive \/ aborted)

\* The first subprocess exited with a non-zero code and was replaced at
\* once; the second one exited with code 0 and its timer is armed.
C25_Witness ==
  /\ ~aborted
  /\ process = 2
  /\ ~procAlive
  /\ respawnTimers = 1

\* C26: a replaced subprocess is cut off: a 'data' event of its stdout
\* changes neither the buffer, nor isReady, nor the queue, nor the handle.
C26_ReplacedHandleIsSilent ==
  [][(/\ stalePipes # <<>>
      /\ \E k \in 1..Len(Head(stalePipes)) : StaleStdoutData(k))
     => UNCHANGED << buffer, isReady, commandQueue, process, outcome >>]_vars

\* C27: the line 'Heroku CLI process closed unexpectedly ...' of a non-zero
\* exit is in the result of the next command that resolves.  After a crash
\* while idle that is the first command written afterwards, here: to the
\* subprocess the crash spawned.
C27_CrashLineVisible ==
  \A k \in 1..Len(stdin) :
    ( /\ stdin[k].proc = idleCrash
      /\ (k > 1 => stdin[k - 1].proc < idleCrash)
      /\ outcome[stdin[k].cmd] = "resolved" )
    => Includes(results[stdin[k].cmd], <<"C">>)

\* C28: isReady is set as soon as the stdout received from the current
\* subprocess contains the ready marker, in one chunk or across chunks.
C28_ReadyAcrossChunks ==
  [][(/\ \E k \in 1..Len(pipe) : StdoutData(k)
      /\ readySeen # READY_MESSAGE
      /\ readySeen' = READY_MESSAGE)
     => isReady']_vars

\* C29: the buffer is cleared when a command is written and when a
\* sentinel is consumed.  While a command is in flight the buffer holds the
\* text received since it was written and nothing older, so that its result
\* has nothing older either; and when no command is in flight no data,
\* sentinel or not, resolves a promise or removes a command from the queue.
C29_BufferScoped ==
  /\ [](isProcessingCommand => Text(buffer) = Text(received))
  /\ [][/\ stdin' # stdin => buffer' = <<>>
        /\ resolvedOrder' # resolvedOrder =>
             /\ isProcessingCommand
             /\ buffer' = <<>>
             /\ lastResult' = results'[resolvedOrder'[Len(resolvedOrder')]]
        /\ ~isProcessingCommand =>
             /\ resolvedOrder' = resolvedOrder
             /\ \A c \in 1..Len(outcome) : outcome'[c] = outcome[c]
             /\ (aborted' = aborted /\ Len(outcome') = Len(outcome))
                  => commandQueue' = commandQueue]_vars

\* A sentinel has come in while no command was in flight, with a command
\* queued: it is in the buffer and the command is still pending.
C29_Witness ==
  /\ ~isProcessingCommand
  /\ ~aborted
  /\ Includes(buffer, COMMAND_END_RESULTS_MESSAGE)
  /\ commandQueue # <<>>
  /\ outcome[Head(commandQueue)] = "pending"

\* C30: with one consumer, while the session is not disposed and
\* isProcessingCommand is true, the queue is not empty and its head is the
\* command written last, still pending; and a step that resolves a promise
\* resolves the promise of that command and no other.
C30_HeadIsInFlight ==
  /\ []((isProcessingCommand /\ ~aborted) =>
          /\ commandQueue # <<>>
          /\ stdin # <<>>
          /\ Head(commandQueue) = stdin[Len(stdin)].cmd
          /\ outcome[Head(commandQueue)] = "pending")
  /\ [][resolvedOrder' # resolvedOrder =>
          /\ resolvedOrder' = Append(resolvedOrder, stdin[Len(stdin)].cmd)
          /\ \A c \in 1..Len(outcome) :
               c # stdin[Len(stdin)].cmd => outcome'[c] = outcome[c]]_vars

\* The second command is in flight, a command behind it, and the
\* subprocess it was written to has been replaced.
C30_Witness ==
  /\ isProcessingCommand
  /\ ~aborted
  /\ resolvedOrder = <<1>>
  /\ stdin[Len(stdin)].cmd = 2
  /\ process > stdin[Len(stdin)].proc

\* C31: a subprocess that is alive is replaced, and so killed, only by the
\* timeout of a command that was written to that same subprocess.  (A step
\* that changes `events` is the subprocess's own: its exit.)
C31_KilledOnlyByOwnTimeout ==
  [][(procAlive /\ process' # process /\ events' = events) =>
       /\ stdin # <<>>
       /\ stdin[Len(stdin)].proc = process
       /\ \E t \in timers :
            /\ t.cmd = stdin[Len(stdin)].cmd
            /\ CommandTimeout(t)]_vars

\* C32: after the disposal the pump loop ends: the generator of a consumer
\* that is iterating returns, so that its for-await loop exits, wherever
\* the generator was suspended when the session was disposed.
C32_PumpEnds ==
  (aborted /\ pc[1] # "created") ~> (pc[1] = "done")

\* C33: initializeProcess called in a disposed session is a no-op.  After
\* the disposal it is called by the timer of a clean exit, which onAbort
\* does not clear: that call spawns nothing and changes no field of the
\* session, isReady included.
C33_InitializeAfterDisposeNoOp ==
  [][(aborted /\ DelayedRespawn) =>
       UNCHANGED << aborted, isReady, isProcessingCommand, process, buffer,
                    commandQueue, pauseResolved, commandTimeoutId, timers,
                    procAlive, pc, outcome, stdin >>]_vars

====
